---- MODULE Spec2Model ----
(***************************************************************************)
(* The LDA-kernel notebook (Tutorials/04_Density_Functional_Theory/        *)
(* 4b_LDA_kernel.ipynb): the cell that reads a Phi matrix for block 1 and  *)
(* the cell that loops over the grid blocks, building the density on the   *)
(* grid, calling the functional and accumulating xc_e and V.               *)
(*                                                                         *)
(* Numbers are integers.  The code multiplies the symmetrized block        *)
(* contribution by 0.5, which is exact in binary floating point; the model *)
(* keeps V in units of one half, so that V[i][j] here is twice the value   *)
(* of the notebook's V[i,j] and the scatter-add adds Vtmp + Vtmp^T.        *)
(* The rounding of the einsum that builds Vtmp is a per-block input (eps): *)
(* what the contraction yields above the diagonal beyond the exact sum.    *)
(* Arrays are indexed from 0 as in the code.                               *)
(***************************************************************************)
EXTENDS Integers, Sequences, FiniteSets, TLC

VARIABLES D, grid, lib, func, computed, pc, b, block, phiSrc, rho, V, xc_e,
          raised, inE, inV

vars == <<D, grid, lib, func, computed, pc, b, block, phiSrc, rho, V, xc_e,
          raised, inE, inV>>

\* ------------------------------------------------------------- bounds
\* number of basis functions (D is NBF x NBF)
NBF == 2
\* number of grid blocks, Vpot.nblocks(); block 1 must exist
NBlocks == 2
\* largest number of points of one block
MaxBlockPts == 2

\* ------------------------------------------------------------ helpers
Min(x, y) == IF x < y THEN x ELSE y
Max(x, y) == IF x < y THEN y ELSE x

RECURSIVE SumTo(_, _)
\* f[0] + ... + f[n-1]
SumTo(f, n) == IF n <= 0 THEN 0 ELSE f[n - 1] + SumTo(f, n - 1)

RECURSIVE MaxOver(_, _)
\* the largest of f[1..n], 0 for n = 0
MaxOver(f, n) == IF n = 0 THEN 0 ELSE Max(f[n], MaxOver(f, n - 1))

Zeros == [i \in 0..NBF-1 |-> [j \in 0..NBF-1 |-> 0]]

\* ------------------------------------------ the external collaborators
\* Density Source: wfn.Da(), the closed-shell density C_occ C_occ^T of one
\* occupied orbital; three orbitals are tried.
Orbital(k, mu) ==
    CASE k = 0 -> 1
      [] k = 1 -> IF mu % 2 = 0 THEN 1 ELSE -1
      [] OTHER -> 2 - mu

Orbitals == {0, 1, 2}

Da(k) == [i \in 0..NBF-1 |-> [j \in 0..NBF-1 |-> Orbital(k, i) * Orbital(k, j)]]

\* Grid Provider: a grid point is one of four kinds, with the values of the
\* basis functions at it and its quadrature weight.
Kinds == 0..3

PointPhi(kind, mu) ==
    CASE kind = 0 -> 0
      [] kind = 1 -> IF mu = 0 THEN 2 ELSE 0
      [] kind = 2 -> 0 - mu
      [] OTHER    -> IF mu % 2 = 0 THEN mu + 1 ELSE 0 - (mu + 1)

PointW(kind) == CASE kind = 0 -> 1 [] kind = 1 -> 2 [] kind = 2 -> 1 [] OTHER -> 3

\* the kind of point p of a block that starts at kind `start`
KindOf(start, p) == (start + p) % Cardinality(Kinds)

\* the basis functions that are nonzero at some point of the block, ascending
RECURSIVE Ascending(_, _)
Ascending(S, n) ==
    IF n = 0 THEN <<>>
    ELSE IF (n - 1) \in S THEN Append(Ascending(S, n - 1), n - 1)
         ELSE Ascending(S, n - 1)

Support(start, count) ==
    {mu \in 0..NBF-1 : \E p \in 0..count-1 : PointPhi(KindOf(start, p), mu) # 0}

Weights(start, count) == [p \in 1..count |-> PointW(KindOf(start, p - 1))]

\* rounding of the Vtmp contraction above the diagonal, in units of the model
RoundErr == {0, 1}

\* one block of the grid: block.npoints(), block.functions_local_to_global()
\* (the functions that are nonzero on the block, or all of them) and block.w()
MakeBlock(s, n, all, e) ==
    [start |-> s, npoints |-> n,
     lpos |-> Ascending(IF all THEN 0..NBF-1 ELSE Support(s, n), NBF),
     w |-> Weights(s, n), eps |-> e]

\* The grids the Grid Provider can hand out: the blocks split a run of
\* consecutive grid points, block k+1 starting where block k ends.  The
\* contractions of one run round alike (e).
RECURSIVE StartOf(_, _, _)
StartOf(s0, counts, k) ==
    IF k = 1 THEN s0 ELSE StartOf(s0, counts, k - 1) + counts[k - 1]

Grids(errs) ==
    { [k \in 1..NBlocks |->
          MakeBlock(StartOf(s0, counts, k) % Cardinality(Kinds), counts[k],
                    all[k], e)] :
        s0 \in Kinds, counts \in [1..NBlocks -> 1..MaxBlockPts],
        all \in [1..NBlocks -> BOOLEAN], e \in errs }

\* The library's buffers are as large as the largest block needs: PHI is
\* max_points x max_functions, the functional's output vectors max_points.
LibFor(g) ==
    [rows    |-> MaxOver([k \in 1..Len(g) |-> g[k].npoints], Len(g)),
     cols    |-> MaxOver([k \in 1..Len(g) |-> Len(g[k].lpos)], Len(g)),
     vLen    |-> MaxOver([k \in 1..Len(g) |-> g[k].npoints], Len(g)),
     vrhoLen |-> MaxOver([k \in 1..Len(g) |-> g[k].npoints], Len(g))]

\* Functional Evaluator: a local functional, a function of the density at
\* the point that vanishes at zero density; ret["V"] and ret["V_RHO_A"].
Functionals == {1, 2}

FuncV(f, r) == IF f = 1 THEN 0 - r ELSE 0 - (r * r)

FuncVRho(f, r) == IF f = 1 THEN 0 - 1 ELSE 0 - (2 * r)

\* Basis Evaluator: the PHI buffer after compute_points on block blk
PhiBuffer(l, blk) ==
    [p \in 0..l.rows-1 |-> [m \in 0..l.cols-1 |->
        IF p < blk.npoints /\ m < Len(blk.lpos)
        THEN PointPhi(KindOf(blk.start, p), blk.lpos[m + 1])
        ELSE 0]]

\* ----------------------------------------------------- numpy semantics
\* np.array(list): a list of ints gives an integer array, the empty list a
\* float64 array of shape (0,)
NpArray(list) ==
    [dtype |-> IF Len(list) = 0 THEN "float64" ELSE "int64", data |-> list]

\* a negative index counts from the end
Wrap(i, n) == IF i < 0 THEN i + n ELSE i

\* indexing an axis of length n with the array arr raises IndexError when arr
\* is not of integer type or holds an index outside -n..n-1
IndexRaises(arr, n) ==
    \/ arr.dtype # "int64"
    \/ \E k \in 1..Len(arr.data) : arr.data[k] < 0 - n \/ arr.data[k] >= n

\* the lengths one einsum label (or one broadcast axis) takes in its operands
\* must agree, except that an axis of length 1 is repeated
Broadcastable(sizes) == Cardinality(sizes \ {1}) <= 1

BDim(sizes) == IF sizes \ {1} = {} THEN 1 ELSE CHOOSE n \in sizes \ {1} : TRUE

BIdx(i, size) == IF size = 1 THEN 0 ELSE i

\* a[:n] of a vector held as a sequence
Take(a, n) == SubSeq(a, 1, Min(Len(a), n))

\* ------------------------------------------------- the loop body, by line
\* line 186: np.array(PHI)[:npoints, :lpos.shape[0]]
PhiRows(l, npoints) == Min(l.rows, npoints)

PhiCols(l, L) == Min(l.cols, L)

PhiSlice(buf, rows, cols) ==
    [p \in 0..rows-1 |-> [m \in 0..cols-1 |-> buf[p][m]]]

\* the slice taken at the local positions instead of the global indices
LocalDUnmapped(Dm, lp) ==
    [m \in 0..Len(lp)-1 |-> [n \in 0..Len(lp)-1 |-> Dm[m][n]]]

\* line 189: lD = D[(lpos[:, None], lpos)]
LocalD(Dm, lp) ==
    [m \in 0..Len(lp)-1 |-> [n \in 0..Len(lp)-1 |->
        Dm[Wrap(lp[m + 1], NBF)][Wrap(lp[n + 1], NBF)]]]

\* the contraction with its third operand left out: 'pm,mn->p'
DensityOneSided(phi, rows, cols, lD, L) ==
    LET M == BDim({cols, L})
    IN  [p \in 0..rows-1 |->
            2 * SumTo([m \in 0..M-1 |->
                    SumTo([n \in 0..M-1 |->
                        phi[p][BIdx(m, cols)] * lD[BIdx(m, L)][BIdx(n, L)]], M)], M)]

\* line 192: rho = 2.0 * np.einsum('pm,mn,pn->p', phi, lD, phi)
Density(phi, rows, cols, lD, L) ==
    LET M == BDim({cols, L})
    IN  [p \in 0..rows-1 |->
            2 * SumTo([m \in 0..M-1 |->
                    SumTo([n \in 0..M-1 |->
                        phi[p][BIdx(m, cols)] * lD[BIdx(m, L)][BIdx(n, L)]
                            * phi[p][BIdx(n, cols)]], M)], M)]

\* line 198: ret = superfunc.compute_functional(inp, -1); an output vector of
\* length len holds the functional of rho in its first entries, zero beyond
FuncOut(f, r, rows, len, deriv) ==
    [p \in 1..len |->
        IF p <= rows
        THEN (IF deriv THEN FuncVRho(f, r[p - 1]) ELSE FuncV(f, r[p - 1]))
        ELSE 0]

\* line 202: np.einsum('a,a->', w, vk)
Energy(w, vk) ==
    LET A == BDim({Len(w), Len(vk)})
    IN  SumTo([a \in 0..A-1 |->
            w[BIdx(a, Len(w)) + 1] * vk[BIdx(a, Len(vk)) + 1]], A)

\* the energy assigned where it is to be added
AccumEnergyOverwrite(ein, de) == de

\* line 202: xc_e += ...
AccumEnergy(ein, de) == ein + de

\* line 206: Vtmp = np.einsum('pb,p,p,pa->ab', phi, v_rho_a, w, phi); the
\* contraction rounds above the diagonal by eps
Contract(phi, rows, cols, v, w, eps) ==
    LET P == BDim({rows, Len(v), Len(w)})
    IN  [a \in 0..cols-1 |-> [c \in 0..cols-1 |->
            SumTo([p \in 0..P-1 |->
                phi[BIdx(p, rows)][c] * v[BIdx(p, Len(v)) + 1]
                    * w[BIdx(p, Len(w)) + 1] * phi[BIdx(p, rows)][a]], P)
            + (IF a < c THEN eps ELSE 0)]]

\* the raw contraction added without symmetrizing
SymmetrizeNot(Vtmp, cols) ==
    [a \in 0..cols-1 |-> [c \in 0..cols-1 |-> 2 * Vtmp[a][c]]]

\* line 209: 0.5 * (Vtmp + Vtmp.T), in units of one half
Symmetrize(Vtmp, cols) ==
    [a \in 0..cols-1 |-> [c \in 0..cols-1 |-> Vtmp[a][c] + Vtmp[c][a]]]

\* the block's contribution assigned where it is to be added
ScatterAssign(Vin, lp, S, cols) ==
    LET L == Len(lp)
        at(i) == {k \in 0..L-1 : Wrap(lp[k + 1], NBF) = i}
        last(i) == CHOOSE k \in at(i) : \A k2 \in at(i) : k2 <= k
    IN  [i \in 0..NBF-1 |-> [j \in 0..NBF-1 |->
            IF at(i) # {} /\ at(j) # {}
            THEN S[BIdx(last(i), cols)][BIdx(last(j), cols)]
            ELSE Vin[i][j]]]

\* the contribution added to the whole rows of the local functions,
\* V[lpos] += ..., the columns not selected
ScatterRows(Vin, lp, S, cols) ==
    LET L == Len(lp)
        at(i) == {k \in 0..L-1 : Wrap(lp[k + 1], NBF) = i}
        last(i) == CHOOSE k \in at(i) : \A k2 \in at(i) : k2 <= k
    IN  [i \in 0..NBF-1 |-> [j \in 0..NBF-1 |->
            IF at(i) # {}
            THEN Vin[i][j] + S[BIdx(last(i), cols)][BIdx(j % Max(cols, 1), cols)]
            ELSE Vin[i][j]]]

\* line 209: V[(lpos[:, None], lpos)] += S: the entries at the index pairs are
\* read, S is added (a cols x cols array added in place to an L x L one, so
\* cols is L or 1, or the addition raises) and the sums are written back,
\* the last write to an entry winning
ScatterAdd(Vin, lp, S, cols) ==
    LET L == Len(lp)
        at(i) == {k \in 0..L-1 : Wrap(lp[k + 1], NBF) = i}
        last(i) == CHOOSE k \in at(i) : \A k2 \in at(i) : k2 <= k
    IN  [i \in 0..NBF-1 |-> [j \in 0..NBF-1 |->
            IF at(i) # {} /\ at(j) # {}
            THEN Vin[i][j] + S[BIdx(last(i), cols)][BIdx(last(j), cols)]
            ELSE Vin[i][j]]]

\* lines 176-209: one pass of the loop body on block blk, with the PHI buffer
\* buf, from the accumulators Vin and ein.  raised names the exception that
\* stopped the pass ("" when it ran to the end), and addedE and addedV tell
\* whether xc_e += and V[...] += were executed.
Step(Dm, l, f, buf, Vin, ein, rin, blk) ==
    LET npoints == blk.npoints
        lpos == NpArray(blk.lpos)
        L == Len(lpos.data)
        w == blk.w
        rows == PhiRows(l, npoints)
        cols == PhiCols(l, L)
        phi == PhiSlice(buf, rows, cols)
        stop(r, e, name, addE) ==
            [V |-> Vin, xc_e |-> e, rho |-> r, raised |-> name,
             addedE |-> addE, addedV |-> FALSE]
    IN  IF IndexRaises(lpos, NBF) THEN stop(rin, ein, "IndexError:189", FALSE)
        ELSE IF ~Broadcastable({cols, L})
             THEN stop(rin, ein, "ValueError:192", FALSE)
        ELSE
        LET lD == LocalD(Dm, lpos.data)
            r == Density(phi, rows, cols, lD, L)
            vk == Take(FuncOut(f, r, rows, l.vLen, FALSE), npoints)
        IN  IF ~Broadcastable({Len(w), Len(vk)})
            THEN stop(r, ein, "ValueError:202", FALSE)
            ELSE
            LET e == AccumEnergy(ein, Energy(w, vk))
                v_rho_a == Take(FuncOut(f, r, rows, l.vrhoLen, TRUE), npoints)
            IN  IF ~Broadcastable({rows, Len(v_rho_a), Len(w)})
                THEN stop(r, e, "ValueError:206", TRUE)
                ELSE
                IF ~(cols = L \/ cols = 1)
                THEN stop(r, e, "ValueError:209", TRUE)
                ELSE
                LET Vtmp == Contract(phi, rows, cols, v_rho_a, w, blk.eps)
                IN  [V |-> ScatterAdd(Vin, lpos.data, Symmetrize(Vtmp, cols), cols),
                     xc_e |-> e, rho |-> r, raised |-> "",
                     addedE |-> TRUE, addedV |-> TRUE]

\* ------------------------------------------------------- the notebook
\* block b of the grid, Vpot.get_block(b)
GetBlock(g, k) == g[k + 1]

\* The state after the first cell (psi4.energy has run): the density, the
\* grid and the functional are fixed, and the points function holds the PHI
\* of whichever block the library computed last.
Init ==
    /\ \E k \in Orbitals : D = Da(k)
    /\ grid \in Grids(RoundErr)
    /\ lib = LibFor(grid)
    /\ func \in Functionals
    /\ computed \in 0..NBlocks-1
    /\ pc = "cell2"
    /\ b = 0
    /\ block = 0 - 1
    /\ phiSrc = 0 - 1
    /\ rho = <<>>
    /\ V = Zeros
    /\ xc_e = 0
    /\ raised = ""
    /\ inE = {}
    /\ inV = {}

\* lines 104-117: block = Vpot.get_block(1); npoints, lpos; phi is sliced
\* from points_func.basis_values()["PHI"] as the buffer stands
ReadPhi ==
    /\ pc = "cell2"
    /\ block' = 1
    /\ phiSrc' = computed
    /\ pc' = "cell3"
    /\ UNCHANGED <<D, grid, lib, func, computed, b, rho, V, xc_e, raised, inE, inV>>

\* lines 163-170: D = np.array(wfn.Da()); V = np.zeros_like(D); xc_e = 0.0;
\* rho = []
StartLoop ==
    /\ pc = "cell3"
    /\ V' = Zeros
    /\ xc_e' = 0
    /\ rho' = <<>>
    /\ b' = 0
    /\ pc' = "loop"
    /\ UNCHANGED <<D, grid, lib, func, computed, block, phiSrc, raised, inE, inV>>

\* lines 173-209: one iteration of `for b in range(Vpot.nblocks())`
LoopIter ==
    /\ pc = "loop"
    /\ b < NBlocks
    /\ LET blk == GetBlock(grid, b)
           res == Step(D, lib, func, PhiBuffer(lib, blk), V, xc_e, rho, blk)
       IN  /\ block' = b
           /\ computed' = b
           /\ phiSrc' = b
           /\ V' = res.V
           /\ xc_e' = res.xc_e
           /\ rho' = res.rho
           /\ raised' = res.raised
           /\ inE' = IF res.addedE THEN inE \cup {b} ELSE inE
           /\ inV' = IF res.addedV THEN inV \cup {b} ELSE inV
           /\ pc' = IF res.raised = "" THEN "loop" ELSE "error"
           /\ b' = IF res.raised = "" THEN b + 1 ELSE b
    /\ UNCHANGED <<D, grid, lib, func>>

\* lines 212-216: the loop is over; xc_e and V are printed and V is compared
\* with the library's own
Finish ==
    /\ pc = "loop"
    /\ b = NBlocks
    /\ pc' = "done"
    /\ UNCHANGED <<D, grid, lib, func, computed, b, block, phiSrc, rho, V, xc_e,
                   raised, inE, inV>>

Next == ReadPhi \/ StartLoop \/ LoopIter \/ Finish

Spec == Init /\ [][Next]_vars

\* ------------------------------------- inputs that break the contracts
\* A library whose PHI buffer or output vectors are smaller than the blocks
\* need, a weight vector of the wrong length, a local-to-global index that is
\* no basis function: the caller defects of spec section 4.1 and 7.
LibDefects(l) ==
    {[l EXCEPT !.rows = n] : n \in 0..l.rows-1}
        \cup {[l EXCEPT !.cols = n] : n \in 0..l.cols-1}
        \cup {[l EXCEPT !.vLen = n] : n \in 0..l.vLen-1}
        \cup {[l EXCEPT !.vrhoLen = n] : n \in 0..l.vrhoLen-1}

BlockDefects(blk) ==
    {[blk EXCEPT !.w = Take(blk.w, Len(blk.w) - 1)],
     [blk EXCEPT !.w = Append(blk.w, 1)]}
        \cup (IF Len(blk.lpos) = 0 THEN {}
              ELSE {[blk EXCEPT !.lpos[1] = bad] : bad \in {NBF, 0 - 1, 0 - NBF - 1}})

\* The state after the first cell when one contract is broken: either the
\* library's buffers or one block; one density and one buffer history suffice.
InitDefect ==
    /\ D = Da(2)
    /\ \E g \in Grids({0}) :
          \/ grid = g /\ lib \in LibDefects(LibFor(g))
          \/ \E k \in 1..NBlocks : \E bad \in BlockDefects(g[k]) :
                grid = [g EXCEPT ![k] = bad] /\ lib = LibFor(g)
    /\ func \in Functionals
    /\ computed = 0
    /\ pc = "cell2"
    /\ b = 0
    /\ block = 0 - 1
    /\ phiSrc = 0 - 1
    /\ rho = <<>>
    /\ V = Zeros
    /\ xc_e = 0
    /\ raised = ""
    /\ inE = {}
    /\ inV = {}

SpecDefect == InitDefect /\ [][Next]_vars

\* ============================================================== claims
\* the global indices a block's index list selects
LposSet(blk) == {Wrap(blk.lpos[k], NBF) : k \in 1..Len(blk.lpos)}

\* the local position of global index i in the block's index list
LocalPos(blk, i) == CHOOSE k \in 0..Len(blk.lpos)-1 : blk.lpos[k + 1] = i

\* the blocks the loop has gone through without an exception
Processed == IF pc \in {"loop", "done", "error"} THEN 0..b-1 ELSE {}

\* lines 173-209 run on the blocks g[k], g[k+1], ... in that order
RECURSIVE RunLoop(_, _, _, _)
RunLoop(g, k, Vin, ein) ==
    IF k > Len(g) THEN [V |-> Vin, xc_e |-> ein, ok |-> TRUE]
    ELSE LET res == Step(D, lib, func, PhiBuffer(lib, g[k]), Vin, ein, <<>>, g[k])
         IN  IF res.raised # "" THEN [V |-> res.V, xc_e |-> res.xc_e, ok |-> FALSE]
             ELSE RunLoop(g, k + 1, res.V, res.xc_e)

\* ---- C1
\* C1: the accumulated V is exactly symmetric, V[i][j] = V[j][i], in every
\* state: after every block iteration and so after the last, whatever the
\* order of the blocks, the weights, the functional's values, Phi and the
\* rounding of each block's raw contraction, starting from V = 0.
C1_VSymmetric == \A i \in 0..NBF-1 : \A j \in 0..NBF-1 : V[i][j] = V[j][i]

\* C1 witness: a block whose raw contraction was not symmetric (eps # 0, two
\* local functions) has been added and V has a nonzero off-diagonal entry.
C1_Witness ==
    /\ pc = "done"
    /\ \E k \in Processed :
          GetBlock(grid, k).eps # 0 /\ Len(GetBlock(grid, k).lpos) >= 2
    /\ \E i \in 0..NBF-1 : \E j \in 0..NBF-1 : i # j /\ V[i][j] # 0

\* ---- C2
\* C2: when the loop has finished, running it over the same blocks in any
\* other order gives the same V and the same xc_e.
C2_OrderIndependent ==
    pc = "done" =>
        \A perm \in Permutations(1..NBlocks) :
            RunLoop([k \in 1..NBlocks |-> grid[perm[k]]], 1, Zeros, 0)
                = [V |-> V, xc_e |-> xc_e, ok |-> TRUE]

\* C2 witness: the loop has finished over two different blocks that share a
\* basis function, with a nonzero V and a nonzero energy.
C2_Witness ==
    /\ pc = "done"
    /\ \E k \in 1..NBlocks : \E m \in 1..NBlocks :
          /\ [grid[k] EXCEPT !.eps = 0] # [grid[m] EXCEPT !.eps = 0]
          /\ LposSet(grid[k]) \cap LposSet(grid[m]) # {}
          /\ RunLoop(<<grid[k]>>, 1, Zeros, 0).xc_e # 0
          /\ RunLoop(<<grid[m]>>, 1, Zeros, 0).xc_e # 0
    /\ V # Zeros
    /\ xc_e # 0

\* ---- C3
\* the density, the symmetrized local contribution (in halves) and the energy
\* of one block on its own
BlockPhi(blk) == PhiSlice(PhiBuffer(lib, blk), blk.npoints, Len(blk.lpos))

BlockRho(blk) ==
    Density(BlockPhi(blk), blk.npoints, Len(blk.lpos),
            LocalD(D, blk.lpos), Len(blk.lpos))

BlockLocalV(blk) ==
    Symmetrize(
        Contract(BlockPhi(blk), blk.npoints, Len(blk.lpos),
                 [p \in 1..blk.npoints |-> FuncVRho(func, BlockRho(blk)[p - 1])],
                 blk.w, blk.eps),
        Len(blk.lpos))

BlockE(blk) ==
    SumTo([p \in 0..blk.npoints-1 |->
              blk.w[p + 1] * FuncV(func, BlockRho(blk)[p])], blk.npoints)

\* C3: accumulation is additive.  When the loop has finished, V[i][j] is the
\* sum, over the blocks whose index list holds both i and j, of the block's
\* symmetrized local contribution at the local positions of i and j, xc_e is
\* the sum of the blocks' energies sum_p w_p e_p, and (V, xc_e) is the
\* elementwise sum of the pairs each block yields when run alone from zero.
C3_Additive ==
    pc = "done" =>
        /\ \A i \in 0..NBF-1 : \A j \in 0..NBF-1 :
              V[i][j] = SumTo([k \in 0..NBlocks-1 |->
                            LET blk == GetBlock(grid, k)
                            IN  IF i \in LposSet(blk) /\ j \in LposSet(blk)
                                THEN BlockLocalV(blk)[LocalPos(blk, i)][LocalPos(blk, j)]
                                ELSE 0], NBlocks)
        /\ xc_e = SumTo([k \in 0..NBlocks-1 |-> BlockE(GetBlock(grid, k))], NBlocks)
        /\ \A i \in 0..NBF-1 : \A j \in 0..NBF-1 :
              V[i][j] = SumTo([k \in 0..NBlocks-1 |->
                            RunLoop(<<GetBlock(grid, k)>>, 1, Zeros, 0).V[i][j]], NBlocks)
        /\ xc_e = SumTo([k \in 0..NBlocks-1 |->
                            RunLoop(<<GetBlock(grid, k)>>, 1, Zeros, 0).xc_e], NBlocks)

\* C3 witness: the loop has finished and an index pair belongs to two blocks
\* that both contribute to it.
C3_Witness ==
    /\ pc = "done"
    /\ \E i \in 0..NBF-1 : \E j \in 0..NBF-1 :
          /\ \A k \in 1..NBlocks :
                /\ {i, j} \subseteq LposSet(grid[k])
                /\ BlockLocalV(grid[k])[LocalPos(grid[k], i)][LocalPos(grid[k], j)] # 0
          /\ V[i][j] # BlockLocalV(grid[NBlocks])[LocalPos(grid[NBlocks], i)]
                                                  [LocalPos(grid[NBlocks], j)]

\* ---- C4
\* the full-width reference: every basis function at every grid point, the
\* full density matrix
FullPhi(blk, p, mu) == PointPhi(KindOf(blk.start, p), mu)

FullRho(blk, p) ==
    2 * SumTo([mu \in 0..NBF-1 |->
            SumTo([nu \in 0..NBF-1 |->
                FullPhi(blk, p, mu) * D[mu][nu] * FullPhi(blk, p, nu)], NBF)], NBF)

V_ref(i, j) ==
    SumTo([k \in 0..NBlocks-1 |->
        LET blk == GetBlock(grid, k)
        IN  SumTo([p \in 0..blk.npoints-1 |->
                FullPhi(blk, p, i) * FuncVRho(func, FullRho(blk, p))
                    * blk.w[p + 1] * FullPhi(blk, p, j)], blk.npoints)], NBlocks)

E_ref ==
    SumTo([k \in 0..NBlocks-1 |->
        LET blk == GetBlock(grid, k)
        IN  SumTo([p \in 0..blk.npoints-1 |->
                blk.w[p + 1] * FuncV(func, FullRho(blk, p))], blk.npoints)], NBlocks)

\* every basis function that is nonzero at a point of the block is local to it
Covering == \A k \in 1..NBlocks :
                Support(grid[k].start, grid[k].npoints) \subseteq LposSet(grid[k])

\* no block's contraction rounds
ExactArithmetic == \A k \in 1..NBlocks : grid[k].eps = 0

\* C4: when the blocks' index lists cover the functions that are nonzero on
\* them and nothing rounds, the V the loop assembles is the full-matrix
\* contraction sum_p Phi[p,i] v_rho[p] w[p] Phi[p,j] over all grid points
\* (V is in halves, so twice it), and xc_e is sum_p w[p] e[p].
C4_MatchesReference ==
    (pc = "done" /\ Covering /\ ExactArithmetic) =>
        /\ \A i \in 0..NBF-1 : \A j \in 0..NBF-1 : V[i][j] = 2 * V_ref(i, j)
        /\ xc_e = E_ref

\* C4 witness: the loop has finished, exactly, with a block that leaves out a
\* basis function, on a density with a nonzero off-diagonal, and V is not 0.
C4_Witness ==
    /\ pc = "done"
    /\ Covering
    /\ ExactArithmetic
    /\ \E k \in 1..NBlocks : Len(grid[k].lpos) < NBF /\ BlockLocalV(grid[k]) # BlockLocalV([grid[k] EXCEPT !.w = [p \in 1..grid[k].npoints |-> 0]])
    /\ \E k \in 1..NBlocks : Len(grid[k].lpos) = NBF
    /\ V # Zeros
    /\ xc_e # 0

\* ---- C5
RECURSIVE Det(_, _, _)
\* the determinant of M on the rows rs and the columns cs (Laplace expansion)
Det(M, rs, cs) ==
    IF Len(rs) = 0 THEN 1
    ELSE SumTo([k \in 0..Len(cs)-1 |->
            (IF k % 2 = 0 THEN 1 ELSE 0 - 1) * M[rs[1]][cs[k + 1]]
                * Det(M, Tail(rs),
                      SubSeq(cs, 1, k) \o SubSeq(cs, k + 2, Len(cs)))], Len(cs))

\* an L x L matrix is symmetric positive semidefinite: it is symmetric and all
\* its principal minors are non-negative
IsPSD(M, L) ==
    /\ \A m \in 0..L-1 : \A n \in 0..L-1 : M[m][n] = M[n][m]
    /\ \A S \in SUBSET (0..L-1) : Det(M, Ascending(S, L), Ascending(S, L)) >= 0

\* rho holds the density of block `block`
RhoIsOfBlock ==
    \/ pc \in {"loop", "done"} /\ b >= 1 /\ block = b - 1
    \/ pc = "error" /\ raised \notin {"IndexError:189", "ValueError:192"}

\* C5: the density the loop has computed for a block is non-negative at every
\* point of the block whenever the block's slice lD of D is symmetric
\* positive semidefinite.
C5_RhoNonNegative ==
    (RhoIsOfBlock /\ IsPSD(LocalD(D, GetBlock(grid, block).lpos),
                           Len(GetBlock(grid, block).lpos))) =>
        /\ DOMAIN rho = 0..GetBlock(grid, block).npoints-1
        /\ \A p \in DOMAIN rho : rho[p] >= 0

\* C5 witness: a density with a positive entry has been computed from a slice
\* with a negative off-diagonal entry and Phi values of both signs.
C5_Witness ==
    /\ RhoIsOfBlock
    /\ LET blk == GetBlock(grid, block)
       IN  /\ IsPSD(LocalD(D, blk.lpos), Len(blk.lpos))
           /\ Len(blk.lpos) >= 2
           /\ LocalD(D, blk.lpos)[0][1] < 0
           /\ \E p \in 0..blk.npoints-1 : BlockPhi(blk)[p][1] < 0
           /\ \E p \in DOMAIN rho : rho[p] > 0

\* ---- C6
\* C6: a block whose local-to-global index list is empty is processed without
\* an error (and leaves V and xc_e as they were): the loop never stops with an
\* exception at such a block.
C6_EmptyIndexListNoError ==
    pc = "error" => Len(GetBlock(grid, block).lpos) # 0

\* ---- C7
\* C7: whenever phi has been read from the points function for a block, the
\* buffer was last computed on that block.
C7_PhiOfSameBlock == phiSrc # 0 - 1 => phiSrc = block

\* ---- C8
\* a shape mismatch among the block's inputs, as the claim lists them
Mismatch(blk, l) ==
    \/ l.rows < blk.npoints
    \/ l.cols < Len(blk.lpos)
    \/ Len(blk.w) # blk.npoints
    \/ l.vLen # blk.npoints
    \/ l.vrhoLen # blk.npoints
    \/ \E k \in 1..Len(blk.lpos) : blk.lpos[k] \notin 0..NBF-1

\* C8: every shape mismatch is fatal at its block: the loop never gets past a
\* block whose inputs mismatch.
C8_MismatchIsFatal ==
    \A k \in Processed : ~Mismatch(GetBlock(grid, k), lib)

\* ---- C9
\* C9: in every state, also after an exception, the blocks whose energy is in
\* xc_e are the blocks whose contribution is in V.
C9_AllOrNothing == inE = inV

\* ---- C10
\* C10: an iteration on a block with index list lpos leaves D as it was and
\* leaves every V[i][j] with i or j outside lpos as it was.
C10_Frame ==
    [][(pc = "loop" /\ b < NBlocks) =>
        /\ D' = D
        /\ \A i \in 0..NBF-1 : \A j \in 0..NBF-1 :
              (i \notin LposSet(GetBlock(grid, b)) \/ j \notin LposSet(GetBlock(grid, b)))
                  => V'[i][j] = V[i][j]]_vars

\* C10 witness: a block that leaves out a basis function has been added to a
\* V that already held a value outside the block's index pairs.
C10_Witness ==
    /\ pc = "done"
    /\ LET blk == GetBlock(grid, NBlocks - 1)
       IN  /\ Len(blk.lpos) < NBF
           /\ RunLoop(<<blk>>, 1, Zeros, 0).V # Zeros
           /\ \E i \in 0..NBF-1 : \E j \in 0..NBF-1 :
                 (i \notin LposSet(blk) \/ j \notin LposSet(blk)) /\ V[i][j] # 0

====
